---------------------------- MODULE Spec2Model ----------------------------
(***************************************************************************)
(* Model of the literature evidence pipeline of deepgene:                  *)
(*   literature_fetcher.py  (extract_pmid, fetch_pubmed_abstract,          *)
(*                           fetch_via_web_scrape, fetch_paper_content)    *)
(*   mutant_extractor.py    (MutantExtractor.extract_mutants,              *)
(*                           get_mutant_extractor)                         *)
(*   gene_lookup.py         (enhance_literature_with_extractions)          *)
(*                                                                         *)
(* Texts are strings; a Python "str | None" value is an option record.     *)
(* The network, the markup parser and the language-model call are the      *)
(* environment: their answers are drawn from explicit finite sets.         *)
(***************************************************************************)
EXTENDS Integers, Sequences, FiniteSets, TLC

(***************************************************************************)
(* Program constants.                                                      *)
(***************************************************************************)
AbstractLimit == 2000
ScrapeLimit == 2000
SampleLimit == 2000
MinTextLen == 10
MinElementText == 100
MaxParagraphs == 5

(***************************************************************************)
(* Bounds of the model.                                                    *)
(***************************************************************************)
MaxCitations == 2
\* extract_mutants on its own is applied to every text length up to this.
MaxTextLen == 12
\* Commands the shell handles in one run.
MaxCommands == 3
\* The merge on its own is applied this many times to one citation.
MaxMerges == 2
\* Calls of get_mutant_extractor made one after the other.
MaxCalls == 8
\* Threads calling get_mutant_extractor at the same time, once each.
MaxThreads == 3

(***************************************************************************)
(* Python values.                                                          *)
(***************************************************************************)
None == [some |-> FALSE, val |-> ""]
Some(t) == [some |-> TRUE, val |-> t]
\* Truth value of an "str | None" value: None and "" are falsy.
Truthy(c) == c.some /\ c.val # ""

\* s[:n]
Slice(s, n) == IF Len(s) <= n THEN s ELSE SubSeq(s, 1, n)
CharAt(s, i) == SubSeq(s, i, i)
IsPrefix(r, t) == Len(r) <= Len(t) /\ SubSeq(t, 1, Len(r)) = r

Whitespace == {" ", "\t", "\n"}
RECURSIVE LStrip(_)
LStrip(s) == IF s # "" /\ Head(s) \in Whitespace THEN LStrip(Tail(s)) ELSE s
RECURSIVE RStrip(_)
RStrip(s) ==
    IF s # "" /\ CharAt(s, Len(s)) \in Whitespace
    THEN RStrip(SubSeq(s, 1, Len(s) - 1))
    ELSE s
\* str.strip()
Strip(s) == RStrip(LStrip(s))

\* sep.join(parts)
RECURSIVE Join(_, _)
Join(sep, parts) ==
    IF parts = <<>> THEN ""
    ELSE IF Len(parts) = 1 THEN parts[1]
    ELSE parts[1] \o sep \o Join(sep, Tail(parts))

\* needle in haystack (substring test on strings)
Contains(hay, needle) ==
    \E p \in 1..(Len(hay) - Len(needle) + 1) :
        SubSeq(hay, p, p + Len(needle) - 1) = needle

\* x in list
InList(x, list) == \E i \in 1..Len(list) : list[i] = x

RECURSIVE Repeat(_, _)
Repeat(s, n) ==
    IF n = 0 THEN ""
    ELSE LET half == Repeat(s, n \div 2)
         IN  IF n % 2 = 0 THEN half \o half ELSE half \o half \o s

(***************************************************************************)
(* Outcome of a call: a returned value, or an exception leaving the call.  *)
(***************************************************************************)
Return(v) == [raised |-> FALSE, val |-> v]
Raise == [raised |-> TRUE, val |-> None]

(***************************************************************************)
(* literature_fetcher.extract_pmid                                         *)
(***************************************************************************)
Digits == {"0", "1", "2", "3", "4", "5", "6", "7", "8", "9"}

\* The literal part of each pattern; every pattern ends in the group (\d+).
patterns ==
    << "pubmed.ncbi.nlm.nih.gov/",
       "ncbi.nlm.nih.gov/pubmed/",
       "ncbi.nlm.nih.gov/m/pubmed/",
       "/pubmed/" >>

\* The pattern lit(\d+) matches url at position p.
MatchAt(lit, url, p) ==
    /\ p + Len(lit) <= Len(url)
    /\ SubSeq(url, p, p + Len(lit) - 1) = lit
    /\ CharAt(url, p + Len(lit)) \in Digits

\* The greedy \d+ starting at position i.
RECURSIVE DigitRun(_, _)
DigitRun(url, i) ==
    IF i <= Len(url) /\ CharAt(url, i) \in Digits
    THEN CharAt(url, i) \o DigitRun(url, i + 1)
    ELSE ""

\* re.match for re.search: the pattern tried at the start of url only.
ReSearch_Anchored(lit, url) ==
    IF MatchAt(lit, url, 1) THEN Some(DigitRun(url, 1 + Len(lit))) ELSE None

\* re.search(lit(\d+), url): group 1 of the leftmost match, or None.
ReSearch(lit, url) ==
    LET ps == {p \in 1..Len(url) : MatchAt(lit, url, p)}
    IN  IF ps = {} THEN None
        ELSE LET p == CHOOSE q \in ps : \A r \in ps : q <= r
             IN  Some(DigitRun(url, p + Len(lit)))

RECURSIVE ExtractPmidFrom(_, _)
ExtractPmidFrom(url, k) ==
    IF k > Len(patterns) THEN None
    ELSE LET m == ReSearch(patterns[k], url)
         IN  IF m.some THEN m ELSE ExtractPmidFrom(url, k + 1)

extract_pmid(url) == ExtractPmidFrom(url, 1)

(***************************************************************************)
(* literature_fetcher.fetch_pubmed_abstract                                *)
(*                                                                         *)
(* resp is what the request and the XML parser give:                       *)
(*   kind "timeout"        requests.get raises requests.Timeout            *)
(*   kind "request_error"  requests.get or raise_for_status raises a       *)
(*                         RequestException (connection error, non-2xx)    *)
(*   kind "parse_error"    ET.fromstring raises ET.ParseError              *)
(*   kind "lookup_error"   ET.fromstring raises LookupError (the document  *)
(*                         declares an encoding Python does not know)      *)
(*   kind "ok"             resp.segs are the AbstractText elements in      *)
(*                         document order: [label, raw], raw being         *)
(*                         ''.join(itertext())                             *)
(***************************************************************************)
\* A segment rendered without its label.
AbstractPart_NoLabel(seg) == Strip(seg.raw)

AbstractPart(seg) ==
    LET text == Strip(seg.raw)
    IN  IF seg.label # "" THEN seg.label \o ": " \o text ELSE text

abstract_parts(segs) == [i \in 1..Len(segs) |-> AbstractPart(segs[i])]

full_abstract(segs) == Join(" ", abstract_parts(segs))

\* full_abstract[:2000]
TruncatedAbstract(full) == Slice(full, AbstractLimit)

\* The test made on the joined text instead of on the list.
HasAbstract_JoinedText(parts) == Join(" ", parts) # ""

\* if abstract_parts:
HasAbstract(parts) == parts # <<>>

fetch_pubmed_abstract(pmid, resp) ==
    CASE resp.kind = "timeout" -> Return(None)
      [] resp.kind = "request_error" -> Return(None)
      [] resp.kind = "parse_error" -> Return(None)
      [] resp.kind = "lookup_error" -> Raise
      [] OTHER ->
            IF HasAbstract(abstract_parts(resp.segs))
            THEN Return(Some(TruncatedAbstract(full_abstract(resp.segs))))
            ELSE Return(None)

(***************************************************************************)
(* literature_fetcher.fetch_via_web_scrape                                 *)
(*                                                                         *)
(* resp.kind is "timeout", "request_error", "parser_error" (any other      *)
(* exception inside the try block) or "ok"; then resp.page is the parsed   *)
(* document: its elements in document order, each                          *)
(*   [tag, classes, id, name, content, text, parentClasses]                *)
(* with classes the class tokens, content the content attribute (an        *)
(* option), text the result of get_text(strip=True) and parentClasses the  *)
(* class tokens of the parent element.                                     *)
(***************************************************************************)
\* BeautifulSoup's match of a class selector: one of the tokens, or the
\* whole attribute value.
ClassMatches(el, want) == InList(want, el.classes) \/ Join(" ", el.classes) = want

\* The meta tag tried before the element selectors.
abstract_selectors_MetaFirst ==
    << [attr |-> "name", value |-> "dc.description"],
       [attr |-> "class", value |-> "abstract"],
       [attr |-> "class", value |-> "abstract-content"],
       [attr |-> "id", value |-> "abstract"],
       [attr |-> "class", value |-> "section abstract"] >>

abstract_selectors ==
    << [attr |-> "class", value |-> "abstract"],
       [attr |-> "class", value |-> "abstract-content"],
       [attr |-> "id", value |-> "abstract"],
       [attr |-> "class", value |-> "section abstract"],
       [attr |-> "name", value |-> "dc.description"] >>

Matches(el, selector) ==
    CASE selector.attr = "class" -> ClassMatches(el, selector.value)
      [] selector.attr = "id" -> el.id = selector.value
      [] OTHER -> el.name = selector.value

\* soup.find(tag, selector): the first such element in document order.
Find(page, tag, selector) ==
    LET hits == {i \in 1..Len(page) : page[i].tag = tag /\ Matches(page[i], selector)}
    IN  IF hits = {} THEN <<>>
        ELSE << page[CHOOSE i \in hits : \A j \in hits : i <= j] >>

\* soup.find('div', s) or soup.find('section', s) or soup.find('p', s)
FindElement(page, selector) ==
    IF Find(page, "div", selector) # <<>> THEN Find(page, "div", selector)
    ELSE IF Find(page, "section", selector) # <<>> THEN Find(page, "section", selector)
    ELSE Find(page, "p", selector)

\* The meta tag's content returned whole.
TruncatedMeta_Whole(meta_content) == meta_content

\* meta_tag.get('content')[:2000]
TruncatedMeta(meta_content) == Slice(meta_content, ScrapeLimit)

\* text[:2000] of a matched element
TruncatedElement(text) == Slice(text, ScrapeLimit)

\* text[:2000] of a fallback paragraph
TruncatedParagraph(text) == Slice(text, ScrapeLimit)

\* The element's text taken as it stands in the document.
get_text_Raw(el) == el.text

\* el.get_text(strip=True), el holding one string
get_text(el) == Strip(el.text)

\* What one selector of the priority list yields: a text, or None.
SelectorYield(page, selector) ==
    IF selector.attr = "name"
    THEN LET meta_tag == Find(page, "meta", selector)
         IN  IF meta_tag # <<>> /\ Truthy(meta_tag[1].content)
             THEN Some(TruncatedMeta(meta_tag[1].content.val))
             ELSE None
    ELSE LET element == FindElement(page, selector)
         IN  IF element # <<>> /\ Len(get_text(element[1])) > MinElementText
             THEN Some(TruncatedElement(get_text(element[1])))
             ELSE None

\* The loop over abstract_selectors from index k on: the first yield.
RECURSIVE SelectorScan(_, _)
SelectorScan(page, k) ==
    IF k > Len(abstract_selectors) THEN None
    ELSE LET y == SelectorYield(page, abstract_selectors[k])
         IN  IF y.some THEN y ELSE SelectorScan(page, k + 1)

\* soup.find_all('p')
paragraphs(page) == SelectSeq(page, LAMBDA el : el.tag = "p")

\* 'abstract' in p.get('class', []) or 'abstract' in str(p.parent.get('class', []))
MentionsAbstract(p) ==
    \/ InList("abstract", p.classes)
    \/ \E i \in 1..Len(p.parentClasses) : Contains(p.parentClasses[i], "abstract")

\* The loop over paragraphs[:5] from index k on.
RECURSIVE ParagraphScan(_, _)
ParagraphScan(ps, k) ==
    IF k > Len(ps) \/ k > MaxParagraphs THEN None
    ELSE IF Len(get_text(ps[k])) > MinElementText /\ MentionsAbstract(ps[k])
         THEN Some(TruncatedParagraph(get_text(ps[k])))
         ELSE ParagraphScan(ps, k + 1)

fetch_via_web_scrape(url, resp) ==
    CASE resp.kind = "timeout" -> Return(None)
      [] resp.kind = "request_error" -> Return(None)
      [] resp.kind = "parser_error" -> Return(None)
      [] OTHER ->
            LET y == SelectorScan(resp.page, 1)
            IN  IF y.some THEN Return(y)
                ELSE Return(ParagraphScan(paragraphs(resp.page), 1))

(***************************************************************************)
(* literature_fetcher.fetch_paper_content: the strategy chosen, the        *)
(* argument it was called with, and the outcome of the call.               *)
(***************************************************************************)
StrategyCall(url) ==
    LET pmid == extract_pmid(url)
    IN  IF Truthy(pmid)
        THEN [strategy |-> "pubmed", arg |-> pmid.val]
        ELSE [strategy |-> "scrape", arg |-> url]

StrategyResult(url, resp) ==
    IF StrategyCall(url).strategy = "pubmed"
    THEN fetch_pubmed_abstract(StrategyCall(url).arg, resp)
    ELSE fetch_via_web_scrape(StrategyCall(url).arg, resp)

\* The scraping strategy tried as well when the structured one gives None.
StrategyCalls_Fallback(url, resp) ==
    IF StrategyCall(url).strategy = "pubmed" /\ ~StrategyResult(url, resp).raised
       /\ ~StrategyResult(url, resp).val.some
    THEN << StrategyCall(url), [strategy |-> "scrape", arg |-> url] >>
    ELSE << StrategyCall(url) >>

\* The strategy calls one fetch_paper_content call makes, in order: each
\* branch returns what its strategy returns.
StrategyCalls(url, resp) == << StrategyCall(url) >>

\* A second request sent when the first one fails.
RequestsMade_Retry(url, resp) == IF resp.kind = "ok" THEN 1 ELSE 2

\* The network requests of one fetch_paper_content call: each strategy
\* called sends one requests.get.
RequestsMade(url, resp) == Len(StrategyCalls(url, resp))

\* fetch_paper_content without its try/except.
fetch_paper_content_NoCatch(url, resp) == StrategyResult(url, resp)

\* try: ... except Exception: return None
fetch_paper_content(url, resp) ==
    LET r == StrategyResult(url, resp)
    IN  IF r.raised THEN Return(None) ELSE r


(***************************************************************************)
(* mutant_extractor.MutantExtractor.extract_mutants                        *)
(*                                                                         *)
(* oc is what the underlying call self.extractor(text=...) does:           *)
(*   [raises |-> TRUE]              the call (or reading .mutants) raises  *)
(*   [raises |-> FALSE, mutants |-> v]  v = result.mutants, a Python value *)
(*       [type |-> "none"], [type |-> "list", items |-> <<...>>] or        *)
(*       [type |-> "str"] (a value that is no list)                        *)
(* The result is the outcome of extract_mutants (raised, or the list       *)
(* returned) and the texts the underlying call was invoked with.           *)
(***************************************************************************)
PyNone == [type |-> "none", items |-> <<>>]
PyList(items) == [type |-> "list", items |-> items]
PyStr == [type |-> "str", items |-> <<>>]

\* result.mutants and isinstance(result.mutants, list)
UsableMutants(v) == v.type = "list" /\ v.items # <<>>

\* The guard without its length test.
TooShort_EmptyOnly(text) == text = ""

\* The guard with <= for <.
TooShort_Inclusive(text) == text = "" \/ Len(text) <= MinTextLen

\* The whole text handed to the underlying call.
text_sample_Whole(text) == text

\* if not text or len(text) < 10
TooShort(text) == text = "" \/ Len(text) < MinTextLen

text_sample(text) == Slice(text, SampleLimit)

\* extract_mutants without its try/except.
extract_mutants_NoCatch(text, oc) ==
    IF TooShort(text)
    THEN [raised |-> FALSE, ret |-> <<>>, invoked |-> <<>>]
    ELSE [raised |-> oc.raises,
          ret |-> IF ~oc.raises /\ UsableMutants(oc.mutants)
                  THEN oc.mutants.items
                  ELSE <<>>,
          invoked |-> << text_sample(text) >>]

\* try: ... except Exception: return []
extract_mutants(text, oc) ==
    IF TooShort(text)
    THEN [raised |-> FALSE, ret |-> <<>>, invoked |-> <<>>]
    ELSE [raised |-> FALSE,
          ret |-> IF ~oc.raises /\ UsableMutants(oc.mutants)
                  THEN oc.mutants.items
                  ELSE <<>>,
          invoked |-> << text_sample(text) >>]

(***************************************************************************)
(* mutant_extractor.get_mutant_extractor                                   *)
(***************************************************************************)
\* get_mutant_extractor without the cache test.
NeedsConstruction_Always(instance) == TRUE

\* if _extractor_instance is None:   (0 stands for None)
NeedsConstruction(instance) == instance = 0

(***************************************************************************)
(* gene_lookup.enhance_literature_with_extractions, one citation           *)
(***************************************************************************)
\* set(list)
ToSet(list) == {list[i] : i \in 1..Len(list)}

\* list(s): the elements of s, each once, in an order the caller cannot
\* rely on.
ListsOf(s) ==
    {l \in [1..Cardinality(s) -> s] : \A x \in s : \E i \in 1..Cardinality(s) : l[i] = x}

\* The merge as a symmetric difference of the two sets.
all_mutants_SymDiff(mutants, extracted_mutants) ==
    ListsOf((ToSet(mutants) \ ToSet(extracted_mutants))
            \cup (ToSet(extracted_mutants) \ ToSet(mutants)))

\* The merge keeping only what was extracted.
all_mutants_ExtractedOnly(mutants, extracted_mutants) == ListsOf(ToSet(extracted_mutants))

\* The merge without set(): plain concatenation.
all_mutants_NoDedup(mutants, extracted_mutants) == {mutants \o extracted_mutants}

\* all_mutants = list(set(lit.mutants + extracted_mutants)): the lists it
\* may be.
all_mutants(mutants, extracted_mutants) == ListsOf(ToSet(mutants \o extracted_mutants))

\* The loop body without "if content:".
HasContent_Unguarded(c) == TRUE

\* if content:
HasContent(c) == Truthy(c)

\* The append moved inside "if content:".
Appended_OnlyWithContent(enh, lit, c) == IF Truthy(c) THEN Append(enh, lit) ELSE enh

\* enhanced.append(lit), for every citation
Appended(enh, lit, c) == Append(enh, lit)

\* A fresh citation built from the url and the merged mentions only.
WithMutants_Rebuilt(lit, new_mutants) ==
    [functional_relevance |-> "", mutants |-> new_mutants, url |-> lit.url]

\* lit after "lit.mutants = all_mutants"
WithMutants(lit, new_mutants) == [lit EXCEPT !.mutants = new_mutants]


(***************************************************************************)
(* The environment's answers and the inputs of the model.                  *)
(***************************************************************************)
Filler == "abcdefg"
\* A text of n characters.
Text(n) == Slice(Repeat(Filler, (n \div Len(Filler)) + 1), n)

Failure(kind) == [kind |-> kind, segs |-> <<>>, page |-> <<>>]
Xml(segs) == [kind |-> "ok", segs |-> segs, page |-> <<>>]
Html(page) == [kind |-> "ok", segs |-> <<>>, page |-> page]
Segment(label, raw) == [label |-> label, raw |-> raw]
Element(tag, classes, id, text, parentClasses) ==
    [tag |-> tag, classes |-> classes, id |-> id, name |-> "", content |-> None,
     text |-> text, parentClasses |-> parentClasses]
MetaTag(name, content) ==
    [tag |-> "meta", classes |-> <<>>, id |-> "", name |-> name, content |-> content,
     text |-> "", parentClasses |-> <<>>]

Text101 == Text(101)

\* Answers to the structured request during enhance.
PubmedAnswers ==
    { Failure("timeout"),
      Failure("lookup_error"),
      Xml(<<>>),
      Xml(<< Segment("", "  ") >>),
      Xml(<< Segment("", " V600E ") >>),
      Xml(<< Segment("BACKGROUND", "BRAF p.Val600Glu") >>) }

\* Answers to the scraping request during enhance.
ScrapeAnswers ==
    { Failure("request_error"),
      Html(<< Element("p", <<>>, "", "Short text", <<>>) >>),
      Html(<< MetaTag("dc.description", Some("rs12345")) >>),
      Html(<< Element("div", << "abstract" >>, "", Text101, <<>>) >>) }

AnswersFor(url) ==
    IF StrategyCall(url).strategy = "pubmed" THEN PubmedAnswers ELSE ScrapeAnswers

\* What the underlying extraction call may do.
ExtractionOutcomes ==
    { [raises |-> TRUE, mutants |-> PyNone],
      [raises |-> FALSE, mutants |-> PyNone],
      [raises |-> FALSE, mutants |-> PyStr],
      [raises |-> FALSE, mutants |-> PyList(<<>>)],
      [raises |-> FALSE, mutants |-> PyList(<< "p.Val600Glu" >>)],
      [raises |-> FALSE, mutants |-> PyList(<< "v600e", "V600E" >>)] }

\* The citations the AI layer hands over.
Citations ==
    { [functional_relevance |-> "kinase activation",
       mutants |-> << "V600E" >>,
       url |-> "https://pubmed.ncbi.nlm.nih.gov/26366551/"],
      [functional_relevance |-> "kinase activation",
       mutants |-> << "V600E", "V600E" >>,
       url |-> "https://pubmed.ncbi.nlm.nih.gov/26366551/"],
      [functional_relevance |-> "risk allele",
       mutants |-> << "rs12345", "V600E" >>,
       url |-> "https://example.com/paper"],
      [functional_relevance |-> "risk allele",
       mutants |-> <<>>,
       url |-> "https://example.com/paper"] }

(***************************************************************************)
(* State.                                                                  *)
(***************************************************************************)
VARIABLES
    pc,                  \* position of the running call
    literature,          \* enhance's argument: a list of citation objects (ids)
    heap,                \* the citation objects: id -> LiteratureInfo
    heap0,               \* the citation objects when enhance was called
    enhanced,            \* enhance's local list
    idx,                 \* index of "lit" in the for loop
    content,             \* enhance's local "content"
    extractor_instance,  \* mutant_extractor._extractor_instance (0: None)
    constructed,         \* number of MutantExtractor() constructions
    fetchLog,            \* per fetch_paper_content call of enhance: the citation,
                         \* the call's place among enhance's calls, the requests
                         \* sent, the strategy used, the kind of answer it got
                         \* and the content returned
    extractLog,          \* the calls of extract_mutants made by enhance
    arg,                 \* argument of a function applied on its own
    res                  \* its result

vars == << pc, literature, heap, heap0, enhanced, idx, content,
           extractor_instance, constructed, fetchLog, extractLog, arg, res >>

NoLit == [functional_relevance |-> "", mutants |-> <<>>, url |-> ""]
NoArg == [url |-> "", resp |-> Failure("none"), text |-> "",
          oc |-> [raises |-> TRUE, mutants |-> PyNone],
          lit |-> NoLit, extracted |-> <<>>,
          ai |-> [type |-> "none", items |-> <<>>],
          line |-> ""]
\* enhanceCalls, result: the arguments of lookup_gene's calls of enhance and
\* the 'literature' entry of the dict it returned.  rsid_history, stop,
\* cmds: the shell's history, whether its command loop has ended, and the
\* commands it has handled.
\* at, tmp, left, saw, made: per thread, the position in
\* get_mutant_extractor, the instance built and not yet stored, the calls
\* still to make, what the cache test of the running call found, whether the
\* running call built an instance.  log: the calls finished, in order.
NoRes == [paper |-> Return(None), strategy |-> Return(None),
          calls |-> <<>>, pmid |-> None,
          raised |-> FALSE, ret |-> <<>>, invoked |-> <<>>,
          lit |-> NoLit, merges |-> <<>>,
          at |-> <<>>, tmp |-> <<>>, left |-> <<>>, saw |-> <<>>, made |-> <<>>,
          log |-> <<>>,
          enhanceCalls |-> <<>>,
          result |-> [returned |-> FALSE, literature |-> [type |-> "none", items |-> <<>>]],
          rsid_history |-> <<>>, stop |-> FALSE, cmds |-> <<>>]

(***************************************************************************)
(* enhance_literature_with_extractions as a process.                       *)
(***************************************************************************)
Init ==
    /\ pc = "get_extractor"
    /\ \E n \in 0..MaxCitations :
          /\ literature = [i \in 1..n |-> i]
          /\ heap \in [1..n -> Citations]
    /\ heap0 = heap
    /\ enhanced = <<>>
    /\ idx = 1
    /\ content = None
    /\ extractor_instance \in {0, 1}
    /\ constructed = 0
    /\ fetchLog = <<>>
    /\ extractLog = <<>>
    /\ arg = NoArg
    /\ res = NoRes

\* extractor = get_mutant_extractor(); the construction MutantExtractor()
\* returns an instance or raises.
GetExtractor ==
    /\ pc = "get_extractor"
    /\ IF NeedsConstruction(extractor_instance)
       THEN \E ok \in BOOLEAN :
               IF ok
               THEN /\ extractor_instance' = constructed + 1
                    /\ constructed' = constructed + 1
                    /\ pc' = "loop"
               ELSE /\ pc' = "raised"
                    /\ UNCHANGED << extractor_instance, constructed >>
       ELSE /\ pc' = "loop"
            /\ UNCHANGED << extractor_instance, constructed >>
    /\ UNCHANGED << literature, heap, heap0, enhanced, idx, content,
                    fetchLog, extractLog, arg, res >>

\* content = fetch_paper_content(str(lit.url))
Fetch ==
    /\ pc = "loop"
    /\ idx <= Len(literature)
    /\ LET lit == heap[literature[idx]]
       IN  \E resp \in AnswersFor(lit.url) :
              LET r == fetch_paper_content(lit.url, resp)
              IN  /\ content' = r.val
                  /\ fetchLog' = Append(fetchLog,
                                        [cit |-> idx,
                                         seq |-> Len(fetchLog) + Len(extractLog) + 1,
                                         requests |-> RequestsMade(lit.url, resp),
                                         strategy |-> StrategyCall(lit.url).strategy,
                                         answer |-> resp.kind,
                                         raised |-> r.raised,
                                         content |-> r.val])
                  /\ pc' = IF r.raised THEN "raised" ELSE "fetched"
    /\ UNCHANGED << literature, heap, heap0, enhanced, idx,
                    extractor_instance, constructed, extractLog, arg, res >>

\* if content: extract, merge, assign; then enhanced.append(lit)
Merge ==
    /\ pc = "fetched"
    /\ LET id == literature[idx]
           lit == heap[id]
       IN  IF HasContent(content)
           THEN \E oc \in ExtractionOutcomes :
                   LET x == extract_mutants(content.val, oc)
                   IN  /\ extractLog' = Append(extractLog,
                                               [cit |-> idx,
                                                seq |-> Len(fetchLog) + Len(extractLog) + 1,
                                                text |-> content.val,
                                                raised |-> x.raised,
                                                ret |-> x.ret, invoked |-> x.invoked])
                       /\ IF x.raised
                          THEN /\ pc' = "raised"
                               /\ UNCHANGED << heap, enhanced, idx >>
                          ELSE /\ \E new_mutants \in all_mutants(lit.mutants, x.ret) :
                                     heap' = [heap EXCEPT ![id] = WithMutants(lit, new_mutants)]
                               /\ enhanced' = Appended(enhanced, id, content)
                               /\ idx' = idx + 1
                               /\ pc' = "loop"
           ELSE /\ enhanced' = Appended(enhanced, id, content)
                /\ idx' = idx + 1
                /\ pc' = "loop"
                /\ UNCHANGED << heap, extractLog >>
    /\ UNCHANGED << literature, heap0, content, extractor_instance, constructed,
                    fetchLog, arg, res >>

\* return enhanced
ReturnEnhanced ==
    /\ pc = "loop"
    /\ idx > Len(literature)
    /\ pc' = "returned"
    /\ UNCHANGED << literature, heap, heap0, enhanced, idx, content,
                    extractor_instance, constructed, fetchLog, extractLog, arg, res >>

Next == GetExtractor \/ Fetch \/ Merge \/ ReturnEnhanced

Spec == Init /\ [][Next]_vars


(***************************************************************************)
(* fetch_paper_content applied on its own to a URL and an answer.          *)
(***************************************************************************)
FetchUrls ==
    { "https://pubmed.ncbi.nlm.nih.gov/26366551/",
      "https://pubmed.ncbi.nlm.nih.gov/26366551",
      "https://www.ncbi.nlm.nih.gov/pubmed/26366551",
      "https://www.ncbi.nlm.nih.gov/m/pubmed/26366551/",
      "https://example.com/pubmed/987",
      "https://doi.org/10.1038/nature12345",
      "https://doi.org/10.1000/pubmed/2024",
      "https://www.nature.com/articles/nature12345",
      "" }

SegmentTexts ==
    { "", "  ", " V600E ", Text(1990), Text(2000), Text(2001), Text(3000) }

PubmedFetchAnswers ==
    { Failure("timeout"), Failure("request_error"), Failure("parse_error"),
      Failure("lookup_error"), Xml(<<>>) }
    \cup { Xml(<< Segment(l, t) >>) : l \in {"", "BACKGROUND"}, t \in SegmentTexts }
    \cup { Xml(<< Segment("BACKGROUND", "text one"), Segment("RESULTS", " text two ") >>),
           Xml(<< Segment("BACKGROUND", Text(1200)), Segment("RESULTS", Text(1200)) >>),
           Xml(<< Segment("", Text(1000)), Segment("", Text(999)) >>),
           Xml(<< Segment("", ""), Segment("", " ") >>) }

Div(classes, text) == Element("div", classes, "", text, <<>>)
Para(classes, text, parentClasses) == Element("p", classes, "", text, parentClasses)

ScrapeFetchAnswers ==
    { Failure("timeout"), Failure("request_error"), Failure("parser_error"), Html(<<>>) }
    \cup { Html(<< Div(<< "abstract" >>, Text(n)) >>) : n \in {100, 101, 2000, 2001, 3000} }
    \cup { Html(<< MetaTag("dc.description", c) >>) :
              c \in {None, Some(""), Some("rs12345"), Some(Text(2000)), Some(Text(2001))} }
    \cup { Html(<< Element("section", << "abstract-content" >>, "", Text(2500), <<>>) >>),
           Html(<< Element("p", <<>>, "abstract", Text(2001), <<>>) >>),
           Html(<< Div(<< "section", "abstract" >>, Text(2002)) >>),
           Html(<< Div(<< "abstract" >>, "Short text"), MetaTag("dc.description", Some(Text(2003))) >>),
           Html(<< MetaTag("dc.description", Some("meta text")), Div(<< "abstract" >>, Text(150)) >>),
           Html(<< Para(<<>>, "Short text", <<>>) >>),
           Html(<< Div(<< "abstract" >>, " " \o Text(100) \o " "),
                   MetaTag("dc.description", Some("rs12345")) >>),
           Html(<< Div(<< "abstract" >>, " " \o Text(101) \o " ") >>),
           Html(<< Para(<<>>, Text(150), << "content" >>) >>),
           Html(<< Para(<< "abstract-text" >>, Text(150), <<>>) >>),
           Html(<< Para(<<>>, Text(150), << "main", "article-abstract" >>) >>),
           Html(<< Para(<<>>, "one", <<>>), Para(<<>>, "two", <<>>), Para(<<>>, "three", <<>>),
                   Para(<<>>, "four", <<>>),
                   Para(<<>>, Text(150), << "abstract-box" >>),
                   Para(<<>>, Text(160), << "abstract-box" >>) >>),
           Html(<< Para(<<>>, Text(2001), << "article-abstract" >>) >>),
           Html(<< Para(<<>>, Text(150), << "Abstract" >>) >>),
           Html(<< Div(<< "abstract" >>, "Short text"), Para(<< "abstract" >>, Text(2004), <<>>) >>),
           Html(<< Para(<<>>, "one", <<>>), Para(<<>>, "two", <<>>), Para(<<>>, "three", <<>>),
                   Para(<<>>, "four", <<>>), Para(<<>>, "five", <<>>),
                   Para(<<>>, Text(150), << "abstract-box" >>) >>) }

FetchAnswers(url) ==
    IF StrategyCall(url).strategy = "pubmed" THEN PubmedFetchAnswers ELSE ScrapeFetchAnswers

\* The variables of enhance, at rest.
EnhanceIdle ==
    /\ literature = <<>>
    /\ heap = <<>>
    /\ heap0 = <<>>
    /\ enhanced = <<>>
    /\ idx = 1
    /\ content = None
    /\ extractor_instance = 0
    /\ constructed = 0
    /\ fetchLog = <<>>
    /\ extractLog = <<>>

InitFetch ==
    /\ pc = "fetch_call"
    /\ \E u \in FetchUrls : \E r \in FetchAnswers(u) :
          arg = [NoArg EXCEPT !.url = u, !.resp = r]
    /\ res = NoRes
    /\ EnhanceIdle

\* fetch_paper_content(arg.url), the request being answered by arg.resp
ApplyFetch ==
    /\ pc = "fetch_call"
    /\ res' = [NoRes EXCEPT !.paper = fetch_paper_content(arg.url, arg.resp),
                            !.strategy = StrategyResult(arg.url, arg.resp),
                            !.calls = StrategyCalls(arg.url, arg.resp),
                            !.pmid = extract_pmid(arg.url)]
    /\ pc' = "fetch_done"
    /\ UNCHANGED << literature, heap, heap0, enhanced, idx, content,
                    extractor_instance, constructed, fetchLog, extractLog, arg >>

NextFetch == ApplyFetch

SpecFetch == InitFetch /\ [][NextFetch]_vars

(***************************************************************************)
(* extract_mutants applied on its own to a text.                           *)
(***************************************************************************)
ExtractTexts ==
    { Text(n) : n \in 0..MaxTextLen } \cup { Text(1999), Text(2000), Text(2001), Text(2500) }

InitExtract ==
    /\ pc = "extract_call"
    /\ \E t \in ExtractTexts : \E oc \in ExtractionOutcomes :
          arg = [NoArg EXCEPT !.text = t, !.oc = oc]
    /\ res = NoRes
    /\ EnhanceIdle

\* extractor.extract_mutants(arg.text), the underlying call behaving as arg.oc
ApplyExtract ==
    /\ pc = "extract_call"
    /\ LET x == extract_mutants(arg.text, arg.oc)
       IN  res' = [NoRes EXCEPT !.raised = x.raised, !.ret = x.ret, !.invoked = x.invoked]
    /\ pc' = "extract_done"
    /\ UNCHANGED << literature, heap, heap0, enhanced, idx, content,
                    extractor_instance, constructed, fetchLog, extractLog, arg >>

NextExtract == ApplyExtract

SpecExtract == InitExtract /\ [][NextExtract]_vars

(***************************************************************************)
(* The merge of enhance's loop body applied on its own, repeatedly, with   *)
(* the same extracted list.                                                *)
(***************************************************************************)
MentionLists(names) ==
    { <<>> } \cup { << a >> : a \in names } \cup { << a, b >> : a \in names, b \in names }

MergeCitations ==
    { [functional_relevance |-> "kinase activation", mutants |-> m,
       url |-> "https://pubmed.ncbi.nlm.nih.gov/26366551/"] :
         m \in MentionLists({"V600E", "rs12345"}) }

ExtractedLists == MentionLists({"V600E", "p.Val600Glu"})

InitMerge ==
    /\ pc = "merge_call"
    /\ \E lit \in MergeCitations : \E x \in ExtractedLists :
          /\ arg = [NoArg EXCEPT !.lit = lit, !.extracted = x]
          /\ res = [NoRes EXCEPT !.lit = lit]
    /\ EnhanceIdle

\* all_mutants = list(set(lit.mutants + extracted_mutants)); lit.mutants = all_mutants
ApplyMerge ==
    /\ pc \in {"merge_call", "merged"}
    /\ Len(res.merges) < MaxMerges
    /\ \E l \in all_mutants(res.lit.mutants, arg.extracted) :
          res' = [res EXCEPT !.lit = WithMutants(res.lit, l),
                             !.merges = Append(@, l)]
    /\ pc' = "merged"
    /\ UNCHANGED << literature, heap, heap0, enhanced, idx, content,
                    extractor_instance, constructed, fetchLog, extractLog, arg >>

NextMerge == ApplyMerge

SpecMerge == InitMerge /\ [][NextMerge]_vars

(***************************************************************************)
(* get_mutant_extractor step by step: the cache test, the construction,    *)
(* the store into the module global, the read of the global for the return *)
(* value.  A thread may be switched between any two of them.               *)
(***************************************************************************)
ThreadsIdle(n, calls) ==
    /\ pc = "threads"
    /\ arg = NoArg
    /\ res = [NoRes EXCEPT !.at = [t \in 1..n |-> "idle"],
                           !.tmp = [t \in 1..n |-> 0],
                           !.left = [t \in 1..n |-> calls],
                           !.saw = [t \in 1..n |-> FALSE],
                           !.made = [t \in 1..n |-> FALSE]]
    /\ EnhanceIdle

UnchangedEnhance ==
    UNCHANGED << pc, literature, heap, heap0, enhanced, idx, content,
                 fetchLog, extractLog, arg >>

\* get_mutant_extractor() is called
Begin(t) ==
    /\ res.at[t] = "idle"
    /\ res.left[t] > 0
    /\ res' = [res EXCEPT !.at[t] = "check", !.left[t] = @ - 1,
                          !.saw[t] = FALSE, !.made[t] = FALSE]
    /\ UNCHANGED << extractor_instance, constructed >>
    /\ UnchangedEnhance

\* if _extractor_instance is None:
Check(t) ==
    /\ res.at[t] = "check"
    /\ res' = [res EXCEPT !.at[t] = IF NeedsConstruction(extractor_instance)
                                    THEN "construct" ELSE "return",
                          !.saw[t] = (extractor_instance = 0)]
    /\ UNCHANGED << extractor_instance, constructed >>
    /\ UnchangedEnhance

\* MutantExtractor(): returns a new instance or raises
Construct(t) ==
    /\ res.at[t] = "construct"
    /\ \E ok \in BOOLEAN :
          IF ok
          THEN /\ res' = [res EXCEPT !.at[t] = "assign", !.tmp[t] = constructed + 1,
                                     !.made[t] = TRUE]
               /\ constructed' = constructed + 1
          ELSE /\ res' = [res EXCEPT !.at[t] = "idle",
                                     !.log = Append(@, [thread |-> t, raised |-> TRUE,
                                                        value |-> 0, saw |-> res.saw[t],
                                                        made |-> FALSE])]
               /\ UNCHANGED constructed
    /\ UNCHANGED extractor_instance
    /\ UnchangedEnhance

\* _extractor_instance = <the new instance>
Assign(t) ==
    /\ res.at[t] = "assign"
    /\ extractor_instance' = res.tmp[t]
    /\ res' = [res EXCEPT !.at[t] = "return"]
    /\ UNCHANGED constructed
    /\ UnchangedEnhance

\* return _extractor_instance
ReturnInstance(t) ==
    /\ res.at[t] = "return"
    /\ res' = [res EXCEPT !.at[t] = "idle",
                          !.log = Append(@, [thread |-> t, raised |-> FALSE,
                                             value |-> extractor_instance,
                                             saw |-> res.saw[t],
                                             made |-> res.made[t]])]
    /\ UNCHANGED << extractor_instance, constructed >>
    /\ UnchangedEnhance

NextThreads ==
    \E t \in DOMAIN res.at :
        Begin(t) \/ Check(t) \/ Construct(t) \/ Assign(t) \/ ReturnInstance(t)

\* One thread calling again and again.
InitSequential == ThreadsIdle(1, MaxCalls)

SpecSequential == InitSequential /\ [][NextThreads]_vars

\* Several threads, each calling once.
InitConcurrent == ThreadsIdle(MaxThreads, 1)

SpecConcurrent == InitConcurrent /\ [][NextThreads]_vars

(***************************************************************************)
(* gene_lookup.lookup_gene: the AI call, then enhance when the AI returned *)
(* literature, then the returned dict.                                     *)
(***************************************************************************)
\* Enhancement run whatever the AI returned.
ShouldEnhance_Always(lit) == TRUE

\* if enhanced_literature:
ShouldEnhance(lit) == lit.type = "list" /\ lit.items # <<>>

\* result.literature: a list of citations, None, or no result at all
\* because the call raised.
InitLookup ==
    /\ pc = "lookup_gene"
    /\ \E n \in 0..MaxCitations :
          /\ heap \in [1..n -> Citations]
          /\ \E t \in {"list", "none", "raises"} :
                /\ t = "none" => n = 0
                /\ arg = [NoArg EXCEPT !.ai = [type |-> t, items |-> [i \in 1..n |-> i]]]
    /\ heap0 = heap
    /\ literature = <<>>
    /\ enhanced = <<>>
    /\ idx = 1
    /\ content = None
    /\ extractor_instance \in {0, 1}
    /\ constructed = 0
    /\ fetchLog = <<>>
    /\ extractLog = <<>>
    /\ res = NoRes

\* result = lookup(...); enhanced_literature = result.literature; the call
\* of enhance when it is truthy
LookupCall ==
    /\ pc = "lookup_gene"
    /\ IF arg.ai.type = "raises"
       THEN /\ pc' = "raised"
            /\ UNCHANGED << literature, res >>
       ELSE IF ShouldEnhance(arg.ai)
            THEN /\ literature' = arg.ai.items
                 /\ res' = [res EXCEPT !.enhanceCalls = Append(@, arg.ai.items)]
                 /\ pc' = "get_extractor"
            ELSE /\ res' = [res EXCEPT !.result = [returned |-> TRUE, literature |-> arg.ai]]
                 /\ pc' = "lookup_done"
                 /\ UNCHANGED literature
    /\ UNCHANGED << heap, heap0, enhanced, idx, content, extractor_instance,
                    constructed, fetchLog, extractLog, arg >>

\* return {..., "literature": enhanced_literature}, after enhance returned
LookupReturn ==
    /\ pc = "returned"
    /\ res.enhanceCalls # <<>>
    /\ res' = [res EXCEPT !.result = [returned |-> TRUE,
                                      literature |-> [type |-> "list", items |-> enhanced]]]
    /\ pc' = "lookup_done"
    /\ UNCHANGED << literature, heap, heap0, enhanced, idx, content,
                    extractor_instance, constructed, fetchLog, extractLog, arg >>

NextLookup == LookupCall \/ GetExtractor \/ Fetch \/ Merge \/ ReturnEnhanced \/ LookupReturn

SpecLookup == InitLookup /\ [][NextLookup]_vars

(***************************************************************************)
(* shell.GeneShell: the lookup command and the command loop.               *)
(***************************************************************************)
\* The longest prefix of t holding none of the characters of stops.
RECURSIVE PrefixBefore(_, _)
PrefixBefore(t, stops) ==
    IF t = "" \/ CharAt(t, 1) \in stops THEN ""
    ELSE CharAt(t, 1) \o PrefixBefore(SubSeq(t, 2, Len(t)), stops)

\* s.split(maxsplit=n): words between runs of whitespace, the rest of the
\* string as last word once n splits are made.
RECURSIVE Split(_, _)
Split(s, n) ==
    LET t == LStrip(s)
    IN  IF t = "" THEN <<>>
        ELSE IF n = 0 THEN << t >>
        ELSE LET w == PrefixBefore(t, Whitespace)
             IN  << w >> \o Split(SubSeq(t, Len(w) + 1, Len(t)), n - 1)

\* gene_parser.extract_gene_symbol
extract_gene_symbol(positional_gene) ==
    IF positional_gene = "" THEN ""
    ELSE LET stripped == Strip(positional_gene)
         IN  IF stripped = "" THEN ""
             ELSE Strip(PrefixBefore(stripped, Whitespace \cup {"("}))

\* console.print(f"[style]...{text}...[/style]") raises rich's MarkupError:
\* the interpolated text holds a closing tag "[/...]", which closes the
\* format string's tag or nothing (the texts hold no opening tag).
MarkupError(text) ==
    \E p \in 1..Len(text) :
        /\ p + 2 <= Len(text)
        /\ SubSeq(text, p, p + 1) = "[/"
        /\ \E q \in (p + 2)..Len(text) : CharAt(text, q) = "]"

\* str(e) of the exception a failed lookup ends with.
Message(outcome) ==
    CASE outcome = "error" -> "Lookup error"
      [] outcome = "markup_error" -> "closing tag '[/i]' at position 12 doesn't match any open tag"
      [] OTHER -> ""

\* perform_lookup without the try around fetch_gene_data.
perform_lookup_NoCatch(rsid_history, rsid, annotation, positional_gene, db, outcome) ==
    LET gene_symbol == extract_gene_symbol(positional_gene)
        history == IF InList(rsid, rsid_history) THEN rsid_history
                   ELSE Append(rsid_history, rsid)
        call == [rsid |-> rsid, annotation |-> annotation,
                 positional_gene |-> positional_gene,
                 gene_data |-> IF gene_symbol # "" /\ db = "data" THEN "data" ELSE "none"]
    IN  IF gene_symbol # "" /\ (MarkupError(gene_symbol) \/ db = "raises")
        THEN [rsid_history |-> history, db |-> "raises", calls |-> <<>>,
              raised |-> TRUE, message |-> "Database error"]
        ELSE [rsid_history |-> history,
              db |-> IF gene_symbol = "" THEN "skipped" ELSE db,
              calls |-> << call >>,
              raised |-> outcome # "ok", message |-> Message(outcome)]

\* GeneShell.perform_lookup followed by display_result: db is what
\* fetch_gene_data does, outcome how lookup_gene and the display end.
perform_lookup(rsid_history, rsid, annotation, positional_gene, db, outcome) ==
    LET gene_symbol == extract_gene_symbol(positional_gene)
        history == IF InList(rsid, rsid_history) THEN rsid_history
                   ELSE Append(rsid_history, rsid)
        call == [rsid |-> rsid, annotation |-> annotation,
                 positional_gene |-> positional_gene,
                 gene_data |-> IF gene_symbol # "" /\ db = "data" THEN "data" ELSE "none"]
    IN  IF gene_symbol # "" /\ MarkupError(gene_symbol)
        THEN [rsid_history |-> history, db |-> "skipped", calls |-> <<>>,
              raised |-> TRUE, message |-> "closing tag '" \o gene_symbol \o "'"]
        ELSE [rsid_history |-> history,
              db |-> IF gene_symbol = "" THEN "skipped" ELSE db,
              calls |-> << call >>,
              raised |-> outcome # "ok", message |-> Message(outcome)]

\* What the user types after "lookup".
LookupLines ==
    { "", "rs1", "rs1 intronic",
      "rs1 intronic CTNND2 (delta catenin-2)",
      "  rs2   downstream  TP53 ",
      "rs1 downstream (delta catenin-2)",
      "rs3 intronic BRCA1",
      "[/b] intronic BRCA1" }

\* fetch_gene_data returns data, returns None, or raises.
DbOutcomes == {"data", "none", "raises"}

\* lookup_gene and display_result end well, or one of them raises, the
\* message of the exception being plain or holding a closing tag.
LookupOutcomes == {"ok", "error", "markup_error"}

InitShell ==
    /\ pc = "shell"
    /\ arg = NoArg
    /\ res = NoRes
    /\ EnhanceIdle

CommandDone(kind, line, nargs, started, r, history, stop) ==
    [kind |-> kind, line |-> line, nargs |-> nargs, started |-> started,
     db |-> r.db, calls |-> r.calls, history |-> history, stop |-> stop]

NotStarted == [db |-> "skipped", calls |-> <<>>]

ShellStep(entry) ==
    /\ res' = [res EXCEPT !.rsid_history = entry.history,
                          !.stop = entry.stop,
                          !.cmds = Append(@, entry)]
    /\ UNCHANGED << pc, literature, heap, heap0, enhanced, idx, content,
                    extractor_instance, constructed, fetchLog, extractLog, arg >>

Prompting == pc = "shell" /\ ~res.stop /\ Len(res.cmds) < MaxCommands

\* GeneShell.do_lookup(line); an exception that leaves it ends cmdloop
do_lookup(line, db, outcome) ==
    LET args == Split(Strip(line), 2)
    IN  IF Len(args) < 3
        THEN ShellStep(CommandDone("lookup", line, Len(args), FALSE, NotStarted,
                                res.rsid_history, FALSE))
        ELSE IF MarkupError(args[1] \o " (" \o args[2] \o ", " \o args[3] \o ")...")
        THEN ShellStep(CommandDone("lookup", line, 3, FALSE, NotStarted,
                                res.rsid_history, TRUE))
        ELSE LET r == perform_lookup(res.rsid_history, args[1], args[2], args[3],
                                     db, outcome)
             IN  ShellStep(CommandDone("lookup", line, 3, TRUE, r, r.rsid_history,
                                    r.raised /\ MarkupError(r.message)))

DoLookup ==
    /\ Prompting
    /\ \E line \in LookupLines : \E db \in DbOutcomes : \E outcome \in LookupOutcomes :
          do_lookup(line, db, outcome)

\* GeneShell.do_exit: return True
DoExit ==
    /\ Prompting
    /\ ShellStep(CommandDone("exit", "", 0, FALSE, NotStarted, res.rsid_history, TRUE))

\* GeneShell.do_quit
DoQuit ==
    /\ Prompting
    /\ ShellStep(CommandDone("quit", "", 0, FALSE, NotStarted, res.rsid_history, TRUE))

\* GeneShell.do_EOF
DoEOF ==
    /\ Prompting
    /\ ShellStep(CommandDone("EOF", "", 0, FALSE, NotStarted, res.rsid_history, TRUE))

NextShell == DoLookup \/ DoExit \/ DoQuit \/ DoEOF

SpecShell == InitShell /\ [][NextShell]_vars

(***************************************************************************)
(* Properties of enhance_literature_with_extractions.                      *)
(***************************************************************************)
\* The citation at input position i, now and when enhance was called.
Lit(i) == heap[literature[i]]
Lit0(i) == heap0[literature[i]]
\* The calls of extract_mutants made for citation i.
ExtractsOf(i) == {k \in 1..Len(extractLog) : extractLog[k].cit = i}
\* The loop body has finished for citation i.
Handled(i) == i < idx
NoDuplicates(list) == \A a, b \in 1..Len(list) : list[a] = list[b] => a = b
Returned == pc = "returned"

\* C1: every mention a citation had when enhance was called is still among
\* its mentions afterwards (and at every point of the run).
C1_MentionsNeverLost ==
    \A i \in 1..Len(literature) :
        ToSet(Lit0(i).mutants) \subseteq ToSet(Lit(i).mutants)

\* C1 witness: enhance returned after merging a non-empty extraction into a
\* citation that had mentions.
C1_Witness ==
    /\ Returned
    /\ \E i \in 1..Len(literature) :
          /\ Lit0(i).mutants # <<>>
          /\ \E k \in ExtractsOf(i) :
                ToSet(extractLog[k].ret) \ ToSet(Lit0(i).mutants) # {}

\* C2: when content was retrieved for a citation, its mentions after the
\* merge hold every distinct string of the original and of the extracted
\* list exactly once, and nothing else (exact, case-sensitive equality).
C2_UnionExactlyOnce ==
    \A i \in 1..Len(literature) :
        (Handled(i) /\ Truthy(fetchLog[i].content)) =>
            /\ Cardinality(ExtractsOf(i)) = 1
            /\ \A k \in ExtractsOf(i) :
                  /\ NoDuplicates(Lit(i).mutants)
                  /\ ToSet(Lit(i).mutants) =
                        ToSet(Lit0(i).mutants) \cup ToSet(extractLog[k].ret)

\* C2 witness: a citation listing "V600E" twice was merged with an
\* extraction of "v600e" and "V600E": two mentions remain.
C2_Witness ==
    /\ Returned
    /\ \E i \in 1..Len(literature) :
          /\ Lit0(i).mutants = << "V600E", "V600E" >>
          /\ \E k \in ExtractsOf(i) : extractLog[k].ret = << "v600e", "V600E" >>
          /\ Len(Lit(i).mutants) = 2

\* C3: a citation whose content came back absent keeps its mentions list
\* as it was (elements, order, multiplicity), and extract_mutants is not
\* called for it.
C3_AbsentContentUntouched ==
    \A i \in 1..Len(fetchLog) :
        ~fetchLog[i].content.some =>
            /\ Lit(i) = Lit0(i)
            /\ ExtractsOf(i) = {}

\* C3 witness: enhance returned, and a citation listing a mention twice got
\* no content.
C3_Witness ==
    /\ Returned
    /\ \E i \in 1..Len(literature) :
          /\ ~fetchLog[i].content.some
          /\ Lit0(i).mutants = << "V600E", "V600E" >>

\* C4 (as claimed): no exception ever leaves enhance.
C4_NoExceptionEscapes == pc # "raised"

\* C5: each handled citation's mentions are fixed by its own original
\* mentions, its own fetched content and its own extraction; an unhandled
\* citation is as it was; and no citation's fetch or extraction failure ends
\* the run: every citation of a returned call was fetched and handled.
C5_FailureIsolation ==
    /\ \A i \in 1..Len(literature) :
          IF Handled(i) /\ Truthy(fetchLog[i].content)
          THEN \E k \in ExtractsOf(i) :
                  /\ extractLog[k].text = fetchLog[i].content.val
                  /\ ToSet(Lit(i).mutants) =
                        ToSet(Lit0(i).mutants) \cup ToSet(extractLog[k].ret)
          ELSE Lit(i).mutants = Lit0(i).mutants
    /\ pc = "raised" => fetchLog = <<>>
    /\ Returned => Len(fetchLog) = Len(literature) /\ idx = Len(literature) + 1

\* C5 witness (scenario C): two citations; the first is enhanced with new
\* mentions, the second's retrieval raises and its mentions are unchanged.
C5_Witness ==
    /\ Returned
    /\ Len(literature) = 2
    /\ ToSet(Lit(1).mutants) \ ToSet(Lit0(1).mutants) # {}
    /\ fetchLog[2].answer = "lookup_error"
    /\ Lit(2).mutants = Lit0(2).mutants

\* C6: the returned list has the input's length and holds at position k the
\* citation object of input position k.
C6_SameLengthAndOrder == Returned => enhanced = literature

\* C6 witness: a returned call on two citations, one with and one without
\* content.
C6_Witness ==
    /\ Returned
    /\ Len(enhanced) = 2
    /\ \E i, j \in 1..2 : Truthy(fetchLog[i].content) /\ ~Truthy(fetchLog[j].content)

\* C7: the url and the functional relevance of every citation stay as they
\* were.
C7_OnlyMentionsMutated ==
    \A i \in 1..Len(literature) :
        /\ Lit(i).url = Lit0(i).url
        /\ Lit(i).functional_relevance = Lit0(i).functional_relevance

\* C7 witness: enhance returned having changed a citation's mentions.
C7_Witness ==
    /\ Returned
    /\ \E i \in 1..Len(literature) : Lit(i).mutants # Lit0(i).mutants

\* C10 (as claimed): enhance never calls extract_mutants on content that is
\* empty or shorter than 10 characters.
C10_ExtractMutantsNeverOnShortContent ==
    \A k \in 1..Len(extractLog) : Len(extractLog[k].text) >= 10

\* C10 (amended): enhance never calls extract_mutants on empty or absent
\* content, and the underlying extraction call is never made on content
\* shorter than 10 characters: for such content extract_mutants makes no
\* underlying call and returns the empty list.
C10_UnderlyingCallNeverOnShortContent ==
    \A k \in 1..Len(extractLog) :
        /\ extractLog[k].text # ""
        /\ \A j \in 1..Len(extractLog[k].invoked) : Len(extractLog[k].invoked[j]) >= 10
        /\ Len(extractLog[k].text) < 10 =>
              extractLog[k].invoked = <<>> /\ extractLog[k].ret = <<>>

\* C10 witness: extract_mutants was called on content of fewer than 10
\* characters from the structured strategy and from the scraping strategy.
C10_Witness ==
    /\ Returned
    /\ \E a, b \in 1..Len(extractLog) :
          /\ Len(extractLog[a].text) < 10
          /\ Len(extractLog[b].text) < 10
          /\ fetchLog[extractLog[a].cit].strategy = "pubmed"
          /\ fetchLog[extractLog[b].cit].strategy = "scrape"


(***************************************************************************)
(* Properties of the fetch functions (under SpecFetch).                    *)
(***************************************************************************)
\* The texts an answer holds before any truncation: the joined abstract, or
\* the texts and content attributes of the page's elements.
UntruncatedTexts(a) ==
    IF a.resp.kind # "ok" THEN {}
    ELSE IF StrategyCall(a.url).strategy = "pubmed"
         THEN { full_abstract(a.resp.segs) }
         ELSE { Strip(a.resp.page[i].text) : i \in 1..Len(a.resp.page) }
              \cup { a.resp.page[i].content.val : i \in 1..Len(a.resp.page) }

BoundedPrefix(r, a) ==
    (~r.raised /\ r.val.some) =>
        /\ Len(r.val.val) <= 2000
        /\ \E t \in UntruncatedTexts(a) : IsPrefix(r.val.val, t)

\* C8: every non-absent result of fetch_paper_content and of the strategy it
\* calls (fetch_pubmed_abstract or fetch_via_web_scrape) has at most 2000
\* characters and is a prefix of the untruncated text.
C8_ContentAtMost2000 ==
    pc = "fetch_done" => BoundedPrefix(res.paper, arg) /\ BoundedPrefix(res.strategy, arg)

\* C8 witness: a fallback paragraph of more than 2000 characters was
\* returned cut to 2000.
C8_Witness ==
    /\ pc = "fetch_done"
    /\ res.calls[1].strategy = "scrape"
    /\ res.paper.val.some
    /\ Len(res.paper.val.val) = 2000
    /\ \E i \in 1..Len(arg.resp.page) :
          /\ arg.resp.page[i].tag = "p"
          /\ arg.resp.page[i].parentClasses # <<>>
          /\ Len(arg.resp.page[i].text) > 2000

(***************************************************************************)
(* Properties of extract_mutants (under SpecExtract).                      *)
(***************************************************************************)
\* C9: on an empty text or one shorter than 10 characters extract_mutants
\* returns the empty list without making the underlying call; a text of
\* exactly 10 characters passes the guard (the underlying call is made).
C9_ShortTextGuard ==
    pc = "extract_done" =>
        /\ Len(arg.text) < 10 =>
              ~res.raised /\ res.ret = <<>> /\ res.invoked = <<>>
        /\ Len(arg.text) = 10 => res.invoked = << arg.text >>

\* C9 witness: a 9-character text was given while the underlying call would
\* have returned mentions.
C9_Witness ==
    /\ pc = "extract_done"
    /\ Len(arg.text) = 9
    /\ ~arg.oc.raises
    /\ arg.oc.mutants.type = "list"
    /\ arg.oc.mutants.items # <<>>
    /\ res.ret = <<>>

(***************************************************************************)
(* Mutation extraction and content retrieval as total functions.           *)
(***************************************************************************)
\* What the underlying extraction call handed back is not a non-empty list.
NothingUsable(oc) ==
    \/ oc.raises
    \/ oc.mutants.type # "list"
    \/ oc.mutants.items = <<>>

\* C11: extract_mutants never raises, and it returns the empty list whenever
\* the underlying extraction call raises or yields a mutants value that is
\* None, empty, or not a list.
C11_ExtractMutantsTotal ==
    pc = "extract_done" =>
        /\ ~res.raised
        /\ NothingUsable(arg.oc) => res.ret = <<>>

\* The underlying call was made on a long enough text and raised.
C11_Witness ==
    /\ pc = "extract_done"
    /\ res.invoked # <<>>
    /\ arg.oc.raises
    /\ ~res.raised
    /\ res.ret = <<>>

\* The accession a URL of the inputs carries in one of the database's paths.
AccessionOf(url) ==
    CASE url = "https://pubmed.ncbi.nlm.nih.gov/26366551/" -> Some("26366551")
      [] url = "https://pubmed.ncbi.nlm.nih.gov/26366551" -> Some("26366551")
      [] url = "https://www.ncbi.nlm.nih.gov/pubmed/26366551" -> Some("26366551")
      [] url = "https://www.ncbi.nlm.nih.gov/m/pubmed/26366551/" -> Some("26366551")
      [] url = "https://example.com/pubmed/987" -> Some("987")
      [] url = "https://doi.org/10.1000/pubmed/2024" -> Some("2024")
      [] OTHER -> None

\* C12: a fetch_paper_content call invokes exactly one strategy: when the URL
\* resolves to an accession, the structured-database strategy with exactly
\* that accession and never the scraping strategy, even when the database
\* strategy returns absent; otherwise only the scraping strategy with the
\* original URL; and the strategy's result is returned unchanged.
C12_ExactlyOneStrategy ==
    pc = "fetch_done" =>
        /\ Len(res.calls) = 1
        /\ IF AccessionOf(arg.url).some
           THEN res.calls[1] = [strategy |-> "pubmed", arg |-> AccessionOf(arg.url).val]
           ELSE res.calls[1] = [strategy |-> "scrape", arg |-> arg.url]
        /\ ~res.strategy.raised => res.paper = res.strategy

\* The database strategy returned absent and nothing else was called.
C12_Witness ==
    /\ pc = "fetch_done"
    /\ arg.resp = Xml(<<>>)
    /\ res.calls = << [strategy |-> "pubmed", arg |-> "26366551"] >>
    /\ res.strategy = Return(None)
    /\ res.paper = Return(None)

\* C13: fetch_paper_content never raises: an exception raised by the
\* identifier resolution or by either strategy is caught and turned into an
\* absent result.
C13_FetchNeverRaises ==
    pc = "fetch_done" =>
        /\ ~res.paper.raised
        /\ res.strategy.raised => res.paper = Return(None)

\* A strategy raised and the call returned absent.
C13_Witness ==
    /\ pc = "fetch_done"
    /\ res.strategy.raised
    /\ res.paper = Return(None)

(***************************************************************************)
(* Identifier resolution and the structured-database strategy.             *)
(***************************************************************************)
IsDoiUrl(url) == IsPrefix("https://doi.org/", url)
IsJournalUrl(url) == IsPrefix("https://www.nature.com/", url)

\* url holds one of the database's paths followed by a digit.
HasAccessionPath(url) ==
    \E lit \in {"pubmed.ncbi.nlm.nih.gov/", "/pubmed/"} :
        \E p \in 1..Len(url) :
            /\ p + Len(lit) <= Len(url)
            /\ SubSeq(url, p, p + Len(lit) - 1) = lit
            /\ SubSeq(url, p + Len(lit), p + Len(lit)) \in Digits

FromDatabase == res.calls # <<>> /\ res.calls[1].strategy = "pubmed"

Labeled(seg) ==
    IF seg.label # "" THEN seg.label \o ": " \o Strip(seg.raw) ELSE Strip(seg.raw)

RECURSIVE SpacedSegments(_)
SpacedSegments(segs) ==
    IF Len(segs) = 1 THEN Labeled(segs[1])
    ELSE Labeled(Head(segs)) \o " " \o SpacedSegments(Tail(segs))

First2000(t) == IF Len(t) <= 2000 THEN t ELSE SubSeq(t, 1, 2000)

\* C15: for a parsed response with at least one abstract segment,
\* fetch_pubmed_abstract returns the segments in document order, a labeled
\* segment as "<LABEL>: <text>" and an unlabeled one as its text alone,
\* joined by single spaces and truncated to at most 2000 characters.
C15_LabeledSegmentsJoined ==
    pc = "fetch_done" /\ FromDatabase /\ arg.resp.kind = "ok" /\ arg.resp.segs # <<>> =>
        res.strategy = Return(Some(First2000(SpacedSegments(arg.resp.segs))))

\* Two labeled segments, returned joined.
C15_Witness ==
    /\ pc = "fetch_done"
    /\ FromDatabase
    /\ arg.resp = Xml(<< Segment("BACKGROUND", "text one"), Segment("RESULTS", " text two ") >>)
    /\ res.strategy = Return(Some("BACKGROUND: text one RESULTS: text two"))

\* C16: fetch_pubmed_abstract returns absent when the parsed response has
\* zero abstract segments, and a string whenever it has at least one.
C16_AbsentIffNoSegments ==
    pc = "fetch_done" /\ FromDatabase /\ arg.resp.kind = "ok" =>
        /\ ~res.strategy.raised
        /\ arg.resp.segs = <<>> <=> res.strategy.val = None

\* One segment of blanks only: the strategy returns the empty string.
C16_Witness ==
    /\ pc = "fetch_done"
    /\ FromDatabase
    /\ arg.resp = Xml(<< Segment("", "  ") >>)
    /\ res.strategy = Return(Some(""))

\* C17: in each strategy on its own, a timeout, a transport failure
\* (non-2xx statuses included) and a malformed or unparsable response each
\* yield absent, and no exception escapes the strategy function.
C17_StrategyFailuresAbsent ==
    pc = "fetch_done" /\ arg.resp.kind # "ok" => res.strategy = Return(None)

(***************************************************************************)
(* The merge repeated; the cached extractor.                               *)
(***************************************************************************)
\* C18: the mutation-mention merge is idempotent at the set level: merging
\* the same extracted list into a citation twice leaves the same set of
\* mentions as merging it once.
C18_MergeIdempotent ==
    pc = "merged" =>
        \A k \in 1..Len(res.merges) : ToSet(res.merges[k]) = ToSet(res.merges[1])

\* Merged twice, the extracted list bringing a mention the citation lacked.
C18_Witness ==
    /\ pc = "merged"
    /\ Len(res.merges) >= 2
    /\ ToSet(arg.extracted) \ ToSet(arg.lit.mutants) # {}
    /\ ToSet(arg.lit.mutants) \cap ToSet(arg.extracted) # {}
    /\ ToSet(res.lit.mutants) = ToSet(arg.lit.mutants) \cup ToSet(arg.extracted)

Returns == SelectSeq(res.log, LAMBDA e : ~e.raised)

\* C19: after any sequence of get_mutant_extractor calls made one after the
\* other in one process, the extractor has been constructed exactly once, by
\* the first call that returned, and every call returned that same instance.
C19_ConstructedOnceSequential ==
    pc = "threads" /\ Returns # <<>> =>
        /\ constructed = 1
        /\ \A i \in 1..Len(Returns) :
              /\ Returns[i].value = 1
              /\ Returns[i].saw <=> i = 1
              /\ Returns[i].made <=> i = 1

\* Three calls have returned.
C19_Witness ==
    /\ pc = "threads"
    /\ Len(Returns) >= 3
    /\ constructed = 1
    /\ \A i \in 1..Len(Returns) : Returns[i].value = extractor_instance

\* C20: when several threads call get_mutant_extractor at the same
\* time, under every interleaving the extractor is constructed at most once
\* and all callers obtain the same instance.
C20_ConstructedOnceConcurrent ==
    pc = "threads" =>
        /\ constructed <= 1
        /\ \A i, j \in 1..Len(Returns) : Returns[i].value = Returns[j].value

(***************************************************************************)
(* Nothing extracted; the sample handed to the underlying call; empty      *)
(* content.                                                                *)
(***************************************************************************)
\* Content came back for citation i and its extraction gave no mention.
NothingExtracted(i) ==
    /\ Handled(i)
    /\ Truthy(fetchLog[i].content)
    /\ \A k \in ExtractsOf(i) : extractLog[k].ret = <<>>

\* C21 as stated: when a citation's content is retrieved but extraction
\* yields no mentions, its mentions list after enhance is identical to the
\* list before (same elements, order and multiplicity), duplicates included.
C21_MentionsListIdentical ==
    \A i \in 1..Len(literature) :
        NothingExtracted(i) => Lit(i).mutants = Lit0(i).mutants

\* C21: when a citation's content is retrieved but extraction yields no
\* mentions, its mentions after enhance are exactly the distinct mentions it
\* had before, each once: a list of at most one mention is kept as it was,
\* duplicates are dropped and the order of the others is not kept.
C21_DistinctMentionsKept ==
    \A i \in 1..Len(literature) :
        NothingExtracted(i) =>
            /\ ToSet(Lit(i).mutants) = ToSet(Lit0(i).mutants)
            /\ NoDuplicates(Lit(i).mutants)
            /\ Len(Lit0(i).mutants) <= 1 => Lit(i).mutants = Lit0(i).mutants
            /\ Lit(i).url = Lit0(i).url
            /\ Lit(i).functional_relevance = Lit0(i).functional_relevance

\* enhance returned; a citation listing a mention twice got content, its
\* extraction gave nothing, and it now lists the mention once.
C21_Witness ==
    /\ Returned
    /\ \E i \in 1..Len(literature) :
          /\ NothingExtracted(i)
          /\ ExtractsOf(i) # {}
          /\ Lit0(i).mutants = << "V600E", "V600E" >>
          /\ Lit(i).mutants = << "V600E" >>

\* C25: for every text of at least 10 characters, extract_mutants makes the
\* underlying extraction call exactly once, with the first min(len, 2000)
\* characters of the text, and when that call returns a non-empty list it
\* returns that list unchanged (same elements, same order).
C25_OneCallOnFirst2000 ==
    pc = "extract_done" /\ Len(arg.text) >= 10 =>
        /\ res.invoked = << First2000(arg.text) >>
        /\ (~arg.oc.raises /\ arg.oc.mutants.type = "list" /\ arg.oc.mutants.items # <<>>)
              => res.ret = arg.oc.mutants.items

\* A text of 2500 characters; the call got 2000 of them and its two-element
\* list came back as it was.
C25_Witness ==
    /\ pc = "extract_done"
    /\ Len(arg.text) = 2500
    /\ Len(res.invoked) = 1
    /\ Len(res.invoked[1]) = 2000
    /\ res.ret = << "v600e", "V600E" >>

\* C29 as stated: fetch_paper_content never returns an empty string: its
\* result is absent or a string of 1 to 2000 characters, under both
\* strategies.
C29_NeverEmptyString ==
    pc = "fetch_done" =>
        /\ ~res.paper.raised
        /\ res.paper.val.some =>
              Len(res.paper.val.val) >= 1 /\ Len(res.paper.val.val) <= 2000

OnlyBlankSegment(segs) ==
    Len(segs) = 1 /\ segs[1].label = "" /\ Strip(segs[1].raw) = ""

\* C29: the result of fetch_paper_content is absent or a string of at most
\* 2000 characters; under the scraping strategy a returned string is never
\* empty; under the structured strategy the empty string is returned exactly
\* when the response's only abstract-text segment is unlabeled and blank.
C29_EmptyOnlyForBlankSegment ==
    pc = "fetch_done" =>
        /\ ~res.paper.raised
        /\ res.paper.val.some => Len(res.paper.val.val) <= 2000
        /\ ~FromDatabase => res.paper.val # Some("")
        /\ (FromDatabase /\ arg.resp.kind = "ok") =>
              (res.paper.val = Some("") <=> OnlyBlankSegment(arg.resp.segs))

\* One unlabeled segment without text: the empty string is returned.
C29_Witness ==
    /\ pc = "fetch_done"
    /\ FromDatabase
    /\ arg.resp = Xml(<< Segment("", "") >>)
    /\ res.paper = Return(Some(""))

(***************************************************************************)
(* The generic scraping strategy.                                          *)
(***************************************************************************)
Scraped == pc = "fetch_done" /\ ~FromDatabase /\ arg.resp.kind = "ok"

PriorityOrder ==
    << [attr |-> "class", value |-> "abstract"],
       [attr |-> "class", value |-> "abstract-content"],
       [attr |-> "id", value |-> "abstract"],
       [attr |-> "class", value |-> "section abstract"],
       [attr |-> "name", value |-> "dc.description"] >>

\* C26: the scraping strategy tries class 'abstract', class
\* 'abstract-content', id 'abstract', compound class 'section abstract' and
\* the meta tag 'dc.description' in that order and returns what the first
\* of them that yields content yields; a lower one's content (the meta
\* tag's in particular) is returned only when no higher one yields, and the
\* paragraph fallback is used only when none yields.
C26_FirstYieldingSelector ==
    Scraped =>
        LET page == arg.resp.page
            hits == {k \in 1..Len(PriorityOrder) : SelectorYield(page, PriorityOrder[k]).some}
        IN  IF hits # {}
            THEN LET first == CHOOSE k \in hits : \A j \in hits : k <= j
                 IN  res.strategy = Return(SelectorYield(page, PriorityOrder[first]))
            ELSE res.strategy = Return(ParagraphScan(paragraphs(page), 1))

\* A page whose meta tag comes first in the document and whose div of class
\* 'abstract' is long enough: the div's text is returned.
C26_Witness ==
    /\ Scraped
    /\ arg.resp = Html(<< MetaTag("dc.description", Some("meta text")),
                          Div(<< "abstract" >>, Text(150)) >>)
    /\ res.strategy = Return(Some(Text(150)))

\* el is a div, section or p picked by one of the four element selectors.
ElementSelected(el) ==
    /\ el.tag \in {"div", "section", "p"}
    /\ \/ InList("abstract", el.classes)
       \/ InList("abstract-content", el.classes)
       \/ el.id = "abstract"
       \/ Join(" ", el.classes) = "section abstract"

LongSelected(page) ==
    \E i \in 1..Len(page) : ElementSelected(page[i]) /\ Len(Strip(page[i].text)) > 100

\* The content attribute of the first meta tag named dc.description.
MetaContent(page) ==
    LET ms == {i \in 1..Len(page) : page[i].tag = "meta" /\ page[i].name = "dc.description"}
    IN  IF ms = {} THEN None
        ELSE page[CHOOSE i \in ms : \A j \in ms : i <= j].content

\* C27: the meta-tag selector yields its content attribute whenever that is
\* non-empty, whatever its length, whereas an element selector yields only
\* when the matched element's stripped visible text has more than 100
\* characters; a matched element with a shorter text yields nothing and the
\* search goes on with the next selector.
C27_MetaUnfilteredElementsOver100 ==
    Scraped =>
        LET page == arg.resp.page
            meta == MetaContent(page)
        IN  /\ (~LongSelected(page) /\ Truthy(meta)) =>
                  res.strategy = Return(Some(First2000(meta.val)))
            /\ (~Truthy(meta) /\ res.strategy.val.some) =>
                  Len(res.strategy.val.val) > 100

\* A div of class 'abstract' whose text is 100 characters between two
\* blanks, then a meta tag of 7 characters: the meta content is returned.
C27_Witness ==
    /\ Scraped
    /\ arg.resp = Html(<< Div(<< "abstract" >>, " " \o Text(100) \o " "),
                          MetaTag("dc.description", Some("rs12345")) >>)
    /\ res.strategy = Return(Some("rs12345"))

LowerChar(c) ==
    CASE c = "A" -> "a" [] c = "B" -> "b" [] c = "C" -> "c" [] c = "D" -> "d"
      [] c = "E" -> "e" [] c = "F" -> "f" [] c = "G" -> "g" [] c = "H" -> "h"
      [] c = "I" -> "i" [] c = "J" -> "j" [] c = "K" -> "k" [] c = "L" -> "l"
      [] c = "M" -> "m" [] c = "N" -> "n" [] c = "O" -> "o" [] c = "P" -> "p"
      [] c = "Q" -> "q" [] c = "R" -> "r" [] c = "S" -> "s" [] c = "T" -> "t"
      [] c = "U" -> "u" [] c = "V" -> "v" [] c = "W" -> "w" [] c = "X" -> "x"
      [] c = "Y" -> "y" [] c = "Z" -> "z" [] OTHER -> c

RECURSIVE Lower(_)
Lower(s) == IF s = "" THEN "" ELSE LowerChar(SubSeq(s, 1, 1)) \o Lower(SubSeq(s, 2, Len(s)))

\* A class attribute mentions "abstract", letter case aside.
MentionsAbstractAnyCase(classes) ==
    \E i \in 1..Len(classes) : Contains(Lower(classes[i]), "abstract")

\* The first of the first five paragraphs with more than 100 characters of
\* text whose own or parent's class attribute mentions "abstract".
FallbackParagraph(ps) ==
    LET ok == {k \in 1..Len(ps) :
                 /\ k <= 5
                 /\ Len(Strip(ps[k].text)) > 100
                 /\ MentionsAbstractAnyCase(ps[k].classes)
                    \/ MentionsAbstractAnyCase(ps[k].parentClasses)}
    IN  IF ok = {} THEN None
        ELSE Some(First2000(Strip(ps[CHOOSE k \in ok : \A j \in ok : k <= j].text)))

\* C28: when no priority selector yields content, the scraping strategy
\* looks at the first 5 paragraph elements only, in document order, and
\* returns, cut to 2000 characters, the first one with more than 100
\* characters of visible text whose own or parent's class attribute mentions
\* "abstract", letter case aside; with no such paragraph among the first 5
\* the result is absent.
C28_FallbackCaseInsensitive ==
    (Scraped /\ ~SelectorScan(arg.resp.page, 1).some) =>
        res.strategy = Return(FallbackParagraph(SelectSeq(arg.resp.page, LAMBDA el : el.tag = "p")))

(***************************************************************************)
(* The order of enhance's steps.                                           *)
(***************************************************************************)
\* C22: enhance handles the citations one at a time in input order; for each
\* it sends at most one content-retrieval request, followed by at most one
\* underlying extraction call; a failed fetch is not retried, and every step
\* for citation k is over before any step for citation k+1 starts.
C22_OneAtATimeInOrder ==
    /\ Len(fetchLog) \in {idx - 1, idx}
    /\ \A k \in 1..Len(fetchLog) :
          /\ fetchLog[k].cit = k
          /\ fetchLog[k].requests <= 1
          /\ k > 1 => fetchLog[k - 1].seq < fetchLog[k].seq
    /\ \A k \in 1..Len(extractLog) :
          LET x == extractLog[k]
          IN  /\ Len(x.invoked) <= 1
              /\ x.cit <= Len(fetchLog)
              /\ fetchLog[x.cit].seq < x.seq
              /\ x.cit < Len(fetchLog) => x.seq < fetchLog[x.cit + 1].seq
              /\ \A j \in 1..Len(extractLog) : extractLog[j].cit = x.cit => j = k
    /\ \A k \in 1..Len(enhanced) : enhanced[k] = literature[k]

\* enhance returned after two citations: the first one's fetch failed, the
\* second one's content went through the underlying extraction call.
C22_Witness ==
    /\ Returned
    /\ Len(fetchLog) = 2
    /\ fetchLog[1].answer # "ok"
    /\ \E k \in 1..Len(extractLog) :
          extractLog[k].cit = 2 /\ extractLog[k].invoked # <<>>

(***************************************************************************)
(* lookup_gene and the enhancement.                                        *)
(***************************************************************************)
\* C23: lookup_gene calls enhance exactly once, with the literature list the
\* AI returned, if and only if that list is non-empty, and then returns the
\* enhanced list as 'literature'; when the AI returns no literature the
\* enhancement is skipped and 'literature' is the AI's empty value.
C23_EnhanceIffLiterature ==
    (pc # "lookup_gene" /\ arg.ai.type # "raises") =>
        /\ Len(res.enhanceCalls) = IF arg.ai.items # <<>> THEN 1 ELSE 0
        /\ \A k \in 1..Len(res.enhanceCalls) : res.enhanceCalls[k] = arg.ai.items
        /\ arg.ai.items = <<>> =>
              /\ pc = "lookup_done"
              /\ res.result = [returned |-> TRUE, literature |-> arg.ai]
              /\ fetchLog = <<>> /\ extractLog = <<>> /\ constructed = 0
        /\ (arg.ai.items # <<>> /\ pc = "lookup_done") =>
              /\ res.result = [returned |-> TRUE,
                               literature |-> [type |-> "list", items |-> enhanced]]
              /\ enhanced = arg.ai.items
              /\ Len(fetchLog) = Len(arg.ai.items)

\* lookup_gene returned two citations, one of them with merged mentions.
C23_Witness ==
    /\ pc = "lookup_done"
    /\ Len(arg.ai.items) = 2
    /\ res.result.literature.items = << 1, 2 >>
    /\ heap # heap0

(***************************************************************************)
(* The shell.                                                              *)
(***************************************************************************)
\* The three arguments each complete lookup line of the inputs carries.
LineArgs(line) ==
    CASE line = "rs1 intronic CTNND2 (delta catenin-2)" ->
            << "rs1", "intronic", "CTNND2 (delta catenin-2)" >>
      [] line = "  rs2   downstream  TP53 " -> << "rs2", "downstream", "TP53" >>
      [] line = "rs1 downstream (delta catenin-2)" ->
            << "rs1", "downstream", "(delta catenin-2)" >>
      [] line = "rs3 intronic BRCA1" -> << "rs3", "intronic", "BRCA1" >>
      [] line = "[/b] intronic BRCA1" -> << "[/b]", "intronic", "BRCA1" >>
      [] OTHER -> <<>>

\* C24: in perform_lookup a gene-database failure never prevents the AI
\* lookup: when the gene symbol is empty (the database fetch is skipped),
\* when the fetch returns no data and when it raises, lookup_gene is still
\* called exactly once, with the original rsid, annotation and positional
\* gene and with gene_data absent.
C24_DatabaseFailureKeepsLookup ==
    pc = "shell" =>
        \A k \in 1..Len(res.cmds) :
            LET c == res.cmds[k]
            IN  (c.started /\ c.db \in {"skipped", "none", "raises"}) =>
                    c.calls = << [rsid |-> LineArgs(c.line)[1],
                                  annotation |-> LineArgs(c.line)[2],
                                  positional_gene |-> LineArgs(c.line)[3],
                                  gene_data |-> "none"] >>

\* The three cases have each happened in one run of the shell.
C24_Witness ==
    /\ pc = "shell"
    /\ \E k \in 1..Len(res.cmds) :
          /\ res.cmds[k].started /\ res.cmds[k].db = "skipped"
          /\ res.cmds[k].line = "rs1 downstream (delta catenin-2)"
          /\ Len(res.cmds[k].calls) = 1
    /\ \E k \in 1..Len(res.cmds) :
          res.cmds[k].started /\ res.cmds[k].db = "none" /\ Len(res.cmds[k].calls) = 1
    /\ \E k \in 1..Len(res.cmds) :
          res.cmds[k].started /\ res.cmds[k].db = "raises" /\ Len(res.cmds[k].calls) = 1

\* The rsIDs of the lookups started, each once, in order of first occurrence.
RECURSIVE FirstOccurrences(_)
FirstOccurrences(list) ==
    IF list = <<>> THEN <<>>
    ELSE LET front == FirstOccurrences(SubSeq(list, 1, Len(list) - 1))
             last == list[Len(list)]
         IN  IF \E i \in 1..Len(front) : front[i] = last THEN front
             ELSE Append(front, last)

StartedRsids ==
    LET started == SelectSeq(res.cmds, LAMBDA c : c.started)
    IN  [k \in 1..Len(started) |-> LineArgs(started[k].line)[1]]

\* C30: after any sequence of shell lookup commands, rsid_history has no
\* duplicates and lists each rsID for which perform_lookup was started
\* exactly once, in first-occurrence order, failed lookups included; a
\* lookup command with fewer than 3 arguments leaves the history unchanged;
\* and no lookup command (successful, malformed or failing) ends the shell
\* loop, which only exit, quit and EOF do.
C30_HistoryAndLoop ==
    pc = "shell" =>
        /\ NoDuplicates(res.rsid_history)
        /\ res.rsid_history = FirstOccurrences(StartedRsids)
        /\ \A k \in 1..Len(res.cmds) :
              LET c == res.cmds[k]
                  before == IF k = 1 THEN <<>> ELSE res.cmds[k - 1].history
              IN  /\ (c.kind = "lookup" /\ c.nargs < 3) => c.history = before
                  /\ c.kind = "lookup" => ~c.stop
                  /\ c.stop <=> c.kind \in {"exit", "quit", "EOF"}

=============================================================================
